---- MODULE Spec2Model ----
(***************************************************************************)
(* Model of pkg/cli/cli.go of the oc client: CommandFor, the entry         *)
(* resolver of the multi-call binary, NewDefaultOcCommand (the external    *)
(* plugin dispatch), NewOcCommand (the command tree, its pre/post-run      *)
(* hooks), changeSharedFlagDefaults (the --validate normaliser), and the   *)
(* execution of the returned root by the command engine.                   *)
(*                                                                         *)
(* Strings whose structure the code inspects (the basename, command names, *)
(* arguments) are sequences of tokens: a token is a word (letters only,    *)
(* never empty), the separator "-", the underscore "_", or the suffix      *)
(* ".exe".  No two words are adjacent, so two token sequences are equal    *)
(* exactly when the strings they spell are equal.                          *)
(***************************************************************************)
EXTENDS Integers, Sequences, FiniteSets, TLC

\* ------------------------------------------------------------------ bounds

\* Segments after the "kubectl-" prefix of a generated basename.
MaxSegs == 2
\* Arguments after the program name (os.Args[1:]).
MaxArgs == 2
\* Server warnings one run can accumulate.
MaxWarnings == 2

\* ----------------------------------------------------------------- strings

Dash == "-"
Underscore == "_"
ExeSuffix == ".exe"

\* strings.HasPrefix(s, p)
HasPrefix(s, p) == Len(s) >= Len(p) /\ SubSeq(s, 1, Len(p)) = p

\* strings.TrimPrefix(s, p)
TrimPrefix(s, p) == IF HasPrefix(s, p) THEN SubSeq(s, Len(p) + 1, Len(s)) ELSE s

\* strings.TrimSuffix(s, ".exe")
TrimSuffix(s, suf) ==
    IF Len(s) >= Len(suf) /\ SubSeq(s, Len(s) - Len(suf) + 1, Len(s)) = suf
    THEN SubSeq(s, 1, Len(s) - Len(suf))
    ELSE s

\* strings.ToLower on one token: the only mixed-case tokens of the model.
LowerTok(t) ==
    CASE t = "Kubectl" -> "kubectl"
      [] t = "KUBECTL" -> "kubectl"
      [] t = ".EXE" -> ".exe"
      [] OTHER -> t

\* strings.ToLower(s)
ToLower(s) == [i \in 1..Len(s) |-> LowerTok(s[i])]

\* strings.Replace(s, old, new, -1) for one-token old and new.
Replace(s, old, new) == [i \in 1..Len(s) |-> IF s[i] = old THEN new ELSE s[i]]

\* strings.Split(s, sep) for a one-token separator: Split("", sep) = [""].
RECURSIVE SplitFrom(_, _, _)
SplitFrom(s, sep, cur) ==
    IF s = <<>> THEN <<cur>>
    ELSE IF Head(s) = sep THEN <<cur>> \o SplitFrom(Tail(s), sep, <<>>)
    ELSE SplitFrom(Tail(s), sep, Append(cur, Head(s)))

Split(s, sep) == SplitFrom(s, sep, <<>>)

\* strings.Join(elems, sep)
RECURSIVE Join(_, _)
Join(elems, sep) ==
    IF elems = <<>> THEN <<>>
    ELSE IF Len(elems) = 1 THEN elems[1]
    ELSE elems[1] \o <<sep>> \o Join(Tail(elems), sep)

\* Sequences over S of length 0..n.
SeqUpTo(S, n) == UNION {[1..k -> S] : k \in 0..n}

None == "none"

\* ------------------------------------------------- the command tree, static

(* The commands the constructors of NewOcCommand and CommandFor return.  The
   default tree is a fragment of the real one: three of the grouped commands
   (create with two children, new-app, serviceaccounts) and the four commands
   added after the groups.  NewParent is the root CommandFor synthesises. *)
Oc == "oc"
NewParent == "newParent"
KubectlRoot == "kubectlRoot"
DeployRoot == "deployRoot"
RecycleRoot == "recycleRoot"

\* groups.Add(cmds): the grouped commands, children of the root, in order.
GroupCommands == <<"new-app", "create", "serviceaccounts">>

\* The children the grouped commands' constructors give them.
BuiltChildren(n) ==
    IF n = "create" THEN <<"rolebinding", "configmap">> ELSE <<>>

\* cmds.AddCommand(...) after the normaliser: ex, plugin, version, options.
LateCommands == <<"ex", "plugin", "version", "options">>

EarlyNodes == {Oc, "new-app", "create", "serviceaccounts", "rolebinding", "configmap"}
LateNodes == {"ex", "plugin", "version", "options"}
SpecialRoots == {KubectlRoot, DeployRoot, RecycleRoot}
Nodes == EarlyNodes \cup LateNodes \cup SpecialRoots \cup {NewParent}

\* Use (its first word is the command's Name), as each constructor sets it.
BuiltUse(n) ==
    CASE n = Oc -> <<"oc">>
      [] n = "new-app" -> <<"new", "-", "app">>
      [] n = KubectlRoot -> <<"kubectl">>
      [] n = DeployRoot -> <<"openshift", "-", "deploy">>
      [] n = RecycleRoot -> <<"openshift", "-", "recycle">>
      [] OTHER -> <<n>>

\* Aliases, as each constructor sets them.
Aliases(n) == IF n = "serviceaccounts" THEN {<<"sa">>} ELSE {}

\* ------------------------------------------------------------------- flags

(* Flag descriptors (pflag.Flag), shared by pointer: name, whether a bare
   --name needs no value (NoOptDefVal, the boolean flags), and whether the
   usage text carries the upstream validation marker. *)
FlagIds ==
    {"oc.warnings-as-errors", "oc.namespace", "oc.user",
     "create.validate", "create.save-config",
     "rolebinding.user", "rolebinding.validate",
     "configmap.from-file",
     "new-app.name", "new-app.validate",
     "version.client"}

FlagName(f) ==
    CASE f = "oc.warnings-as-errors" -> <<"warnings", "-", "as", "-", "errors">>
      [] f = "oc.namespace" -> <<"namespace">>
      [] f \in {"oc.user", "rolebinding.user"} -> <<"user">>
      [] f \in {"create.validate", "rolebinding.validate", "new-app.validate"} -> <<"validate">>
      [] f = "create.save-config" -> <<"save", "-", "config">>
      [] f = "configmap.from-file" -> <<"from", "-", "file">>
      [] f = "new-app.name" -> <<"name">>
      [] f = "version.client" -> <<"client">>

NoOptDefVal(f) == f \in {"oc.warnings-as-errors", "create.save-config", "version.client"}

\* strings.Contains(validateFlag.Usage, "Must be one of: strict (or true), warn, ignore (or false)")
UsageHasMarker(f) == f \in {"create.validate", "rolebinding.validate"}

\* Flags a constructor declares through cmd.Flags().
BuiltLocalFlags(n) ==
    CASE n = "create" -> {"create.validate"}
      [] n = "rolebinding" -> {"rolebinding.user", "rolebinding.validate"}
      [] n = "configmap" -> {"configmap.from-file"}
      [] n = "new-app" -> {"new-app.name", "new-app.validate"}
      [] n = "version" -> {"version.client"}
      [] OTHER -> {}

\* Flags a constructor declares through cmd.PersistentFlags().
BuiltPersistentFlags(n) ==
    CASE n = Oc -> {"oc.warnings-as-errors", "oc.namespace", "oc.user"}
      [] n = "create" -> {"create.save-config"}
      [] OTHER -> {}

\* The default values the upstream constructors give --validate.
ValidateDefaults == {"true", "strict"}

\* ------------------------------------------------------------------- state

VARIABLES
    pc,          \* where the process is
    goos,        \* runtime.GOOS
    argv0,       \* the basename CommandFor is called with
    osArgs,      \* os.Args[1:]
    use,         \* Command.Use of every node
    commands,    \* Command.commands: the ordered children
    parent,      \* Command.parent
    lflags,      \* the flags added through Command.Flags()
    pflags,      \* the flags added through Command.PersistentFlags()
    run,         \* Command.Run: the run behaviour, or None
    hooks,       \* whether PersistentPreRunE / PersistentPostRunE are set
    flagState,   \* every flag's DefValue, Value and Changed
    visits,      \* how often changeSharedFlagDefaults visited each node
    built,       \* the constructors CommandFor called
    cmd,         \* the local cmd of CommandFor: the root it returns
    search,      \* what NewDefaultOcCommand decided about external plugins
    target,      \* what the re-rooting branch resolved
    passes,      \* the tree passes and the dispatch decision, in the order they ran
    lookPath,    \* what exec.LookPath finds: the plugin executables on PATH
    warnings,    \* warningHandler.WarningCount()
    handler,     \* whether rest.SetDefaultWarningHandler(warningHandler) ran
    outcome,     \* how the process ended
    errout       \* what the resolver wrote to the error stream

vars == <<pc, goos, argv0, osArgs, use, commands, parent, lflags, pflags, run,
          hooks, flagState, visits, built, cmd, search, target, passes, lookPath,
          handler, warnings,
          outcome, errout>>

treeVars == <<use, commands, parent, lflags, pflags, run, hooks>>

\* ------------------------------------------------------------ pflag, cobra

\* FlagSet.Lookup(name): the flag of that name, or None.
Lookup(set, name) ==
    IF \E f \in set : FlagName(f) = name
    THEN CHOOSE f \in set : FlagName(f) = name
    ELSE None

\* FlagSet.AddFlagSet(newSet): a flag whose name is already present is ignored.
AddFlagSet(set, newSet) ==
    set \cup {f \in newSet : Lookup(set, FlagName(f)) = None}

\* The persistent flags a command's children inherit from it and its parents,
\* the nearest declaration of a name first.
RECURSIVE PersistentOf(_)
PersistentOf(c) ==
    IF c = None THEN {}
    ELSE AddFlagSet(pflags[c], PersistentOf(parent[c]))

\* Command.Flags(): the complete flag set that applies to the command, local
\* and persistent, declared here and by all parents.
Flags(c) == AddFlagSet(AddFlagSet(lflags[c], pflags[c]), PersistentOf(parent[c]))

\* Command.Name(): the first word of Use.
Name(c) == use[c]

\* Command.HasSubCommands(), Command.HasParent()
HasSubCommands(c) == commands[c] # <<>>
HasParent(c) == parent[c] # None

IsFlagArg(s) == HasPrefix(s, <<Dash>>)

\* A flag that is unknown or has no NoOptDefVal takes the next argument.
NeedsValue(f) == f = None \/ ~NoOptDefVal(f)

\* Whether stripFlags takes the argument after s as the value of s: a long
\* flag without NoOptDefVal.  No argument of the model holds "=", and no
\* command of the model declares a shorthand.
TakesValue(s, c) ==
    /\ HasPrefix(s, <<Dash, Dash>>)
    /\ NeedsValue(Lookup(Flags(c), SubSeq(s, 3, Len(s))))

\* cobra's stripFlags(args, c): the arguments that are neither flags nor the
\* values of flags; "--" ends the scan, empty arguments are dropped, and a
\* value-taking flag with at most one argument after it ends the scan too.
RECURSIVE StripFlags(_, _)
StripFlags(args, c) ==
    IF args = <<>> \/ Head(args) = <<Dash, Dash>> THEN <<>>
    ELSE IF TakesValue(Head(args), c)
         THEN IF Len(args) <= 2 THEN <<>> ELSE StripFlags(Tail(Tail(args)), c)
    ELSE (IF Head(args) # <<>> /\ ~IsFlagArg(Head(args)) THEN <<Head(args)>> ELSE <<>>)
         \o StripFlags(Tail(args), c)

\* Command.findNext(next): the first child whose name or one of whose aliases
\* equals next (EnablePrefixMatching is off), or None.
RECURSIVE FirstMatch(_, _)
FirstMatch(children, next) ==
    IF children = <<>> THEN None
    ELSE IF Name(Head(children)) = next \/ next \in Aliases(Head(children))
         THEN Head(children)
    ELSE FirstMatch(Tail(children), next)

FindNext(c, next) == FirstMatch(commands[c], next)

\* Command.argsMinusFirstX(args, x): args without the first x that is neither
\* a flag nor a flag's value.
RECURSIVE ArgsMinusFirstX(_, _, _)
ArgsMinusFirstX(args, x, c) ==
    IF args = <<>> \/ Head(args) = <<Dash, Dash>> THEN args
    ELSE IF TakesValue(Head(args), c)
         THEN IF Len(args) = 1 THEN args
              ELSE SubSeq(args, 1, 2) \o ArgsMinusFirstX(Tail(Tail(args)), x, c)
    ELSE IF ~IsFlagArg(Head(args)) /\ Head(args) = x THEN Tail(args)
    ELSE <<Head(args)>> \o ArgsMinusFirstX(Tail(args), x, c)

\* The innerfind of Command.Find: descend while the first non-flag argument
\* names a child.
RECURSIVE InnerFind(_, _)
Descend(c, innerArgs, word, next) ==
    IF next # None
    THEN InnerFind(next, ArgsMinusFirstX(innerArgs, word, c))
    ELSE [cmd |-> c, args |-> innerArgs]

InnerFindOn(c, innerArgs, argsWOflags) ==
    IF argsWOflags = <<>> THEN [cmd |-> c, args |-> innerArgs]
    ELSE Descend(c, innerArgs, argsWOflags[1], FindNext(c, argsWOflags[1]))

InnerFind(c, innerArgs) == InnerFindOn(c, innerArgs, StripFlags(innerArgs, c))

\* legacyArgsValidation (no command of the tree sets Args): "unknown
\* command" for a root that has subcommands and a non-flag argument left.
Validated(r) ==
    [cmd |-> r.cmd, args |-> r.args,
     err |-> /\ HasSubCommands(r.cmd)
             /\ ~HasParent(r.cmd)
             /\ StripFlags(r.args, r.cmd) # <<>>]

\* Command.Find(args): the deepest command the arguments name, the arguments
\* left, and the error of the validation.
Find(c, args) == Validated(InnerFind(c, args))

\* ------------------------------------------------------------- the inputs

\* The path segments a generated plugin-style basename is made of.
Segments == {<<>>, <<"create">>, <<"rolebinding">>, <<"sa">>,
             <<"new", Underscore, "app">>}

PluginPrefix == <<"kubectl", Dash>>

\* The basenames: the binary's own name, the three special names, and
\* "kubectl-" followed by one to MaxSegs segments.
BaseNames ==
    {<<"oc">>, <<"kubectl">>, <<"openshift", Dash, "deploy">>,
     <<"openshift", Dash, "recycle">>, <<"Kubectl", ExeSuffix>>}
    \cup {PluginPrefix \o Join(segs, Dash) : segs \in SeqUpTo(Segments, MaxSegs) \ {<<>>}}

\* Basenames as a Windows shell gives them.
WindowsBaseNames ==
    {<<"Kubectl", ExeSuffix>>, <<"KUBECTL", ".EXE">>, <<"oc", ExeSuffix>>,
     <<"openshift", Dash, "deploy", ExeSuffix>>,
     <<"kubectl", Dash, "create", Dash, "rolebinding", ExeSuffix>>}

Invocations ==
    {<<"linux", b>> : b \in BaseNames} \cup {<<"windows", b>> : b \in WindowsBaseNames}

Help == <<"help">>
\* cobra.ShellCompRequestCmd, cobra.ShellCompNoDescRequestCmd
ShellCompRequestCmd == <<Underscore, Underscore, "complete">>
ShellCompNoDescRequestCmd == <<Underscore, Underscore, "completeNoDesc">>

\* The arguments a command line of the model is made of.
ArgWords == {<<"create">>, <<"rolebinding">>, Help,
             <<Dash, Dash, "warnings", Dash, "as", Dash, "errors">>,
             <<Dash, Dash, "namespace">>}

\* What PATH may hold: plugin executables, by file name.
PathConfigs ==
    {{},
     {<<"kubectl", Dash, "rolebinding">>,
      <<"oc", Dash, "rolebinding", Dash, "rolebinding">>},
     {<<"oc", Dash, "rolebinding">>, <<"kubectl", Dash, "rolebinding">>}}

\* -------------------------------------------------------------- CommandFor

\* The basename after "Make case-insensitive and strip executable suffix".
Normalized(os, basename) ==
    IF os = "windows" THEN TrimSuffix(ToLower(basename), <<ExeSuffix>>) ELSE basename

Basename == Normalized(goos, argv0)

\* The switch without its first case.
SwitchWithoutKubectl(basename) ==
    CASE basename = <<"openshift", Dash, "deploy">> -> "NewCommandDeployer"
      [] basename = <<"openshift", Dash, "recycle">> -> "NewCommandRecycle"
      [] OTHER -> "NewDefaultOcCommand"

\* The switch on the basename: the constructor CommandFor calls.
SwitchBasename(basename) ==
    CASE basename = <<"kubectl">> -> "NewDefaultKubectlCommand"
      [] basename = <<"openshift", Dash, "deploy">> -> "NewCommandDeployer"
      [] basename = <<"openshift", Dash, "recycle">> -> "NewCommandRecycle"
      [] OTHER -> "NewDefaultOcCommand"

\* The root each constructor returns.
RootOf(constructor) ==
    CASE constructor = "NewDefaultKubectlCommand" -> KubectlRoot
      [] constructor = "NewCommandDeployer" -> DeployRoot
      [] constructor = "NewCommandRecycle" -> RecycleRoot
      [] constructor = "NewDefaultOcCommand" -> Oc

Unbuilt == [n \in Nodes |-> <<>>]

Init ==
    /\ pc = "start"
    /\ \E inv \in Invocations : goos = inv[1] /\ argv0 = inv[2]
    /\ osArgs \in SeqUpTo(ArgWords, MaxArgs)
    /\ use = Unbuilt
    /\ commands = Unbuilt
    /\ parent = [n \in Nodes |-> None]
    /\ lflags = [n \in Nodes |-> {}]
    /\ pflags = [n \in Nodes |-> {}]
    /\ run = [n \in Nodes |-> None]
    /\ hooks = [n \in Nodes |-> FALSE]
    /\ flagState = [f \in FlagIds |-> [def |-> "", value |-> "", changed |-> FALSE]]
    /\ visits = [n \in Nodes |-> 0]
    /\ built = {}
    /\ passes = <<>>
    /\ cmd = None
    /\ search = [decided |-> FALSE, triggered |-> FALSE, result |-> None]
    /\ target = None
    /\ lookPath = {}
    /\ handler = FALSE
    /\ warnings = 0
    /\ outcome = [kind |-> "running"]
    /\ errout = <<>>

\* case "kubectl", "openshift-deploy", "openshift-recycle": an independent
\* tree, here its root alone.
NewSpecialCommand ==
    /\ pc = "start"
    /\ SwitchBasename(Basename) # "NewDefaultOcCommand"
    /\ built' = built \cup {SwitchBasename(Basename)}
    /\ cmd' = RootOf(SwitchBasename(Basename))
    /\ use' = [n \in Nodes |-> IF n = cmd' THEN BuiltUse(n) ELSE use[n]]
    /\ run' = [n \in Nodes |-> IF n = cmd' THEN n ELSE run[n]]
    /\ pc' = "return"
    /\ UNCHANGED <<goos, argv0, osArgs, commands, parent, lflags, pflags, hooks,
                   flagState, visits, passes, search, target, lookPath, handler,
                   warnings, outcome, errout>>

\* ------------------------------------------------------------ NewOcCommand

\* The flags the constructors of the nodes in S declare.
DeclaredBy(S) == UNION {BuiltLocalFlags(n) \cup BuiltPersistentFlags(n) : n \in S}

\* A freshly declared flag: Value = DefValue, Changed = false.
Fresh(d) == [def |-> d, value |-> d, changed |-> FALSE]

Declared(f, validateDefault) ==
    Fresh(IF FlagName(f) = <<"validate">> THEN validateDefault
          ELSE IF NoOptDefVal(f) THEN "false" ELSE "")

\* The parent AddCommand gives each built node.
BuiltParent(n) ==
    CASE n \in {"rolebinding", "configmap"} -> "create"
      [] n = Oc -> None
      [] OTHER -> Oc

\* The root command with its hooks and persistent flags, the grouped commands
\* and groups.Add(cmds).
BuildOc ==
    /\ pc = "start"
    /\ SwitchBasename(Basename) = "NewDefaultOcCommand"
    /\ built' = built \cup {"NewDefaultOcCommand"}
    /\ cmd' = Oc
    /\ use' = [n \in Nodes |-> IF n \in EarlyNodes THEN BuiltUse(n) ELSE use[n]]
    /\ commands' = [n \in Nodes |->
                     IF n = Oc THEN GroupCommands
                     ELSE IF n \in EarlyNodes THEN BuiltChildren(n)
                     ELSE commands[n]]
    /\ parent' = [n \in Nodes |-> IF n \in EarlyNodes THEN BuiltParent(n) ELSE parent[n]]
    /\ lflags' = [n \in Nodes |-> IF n \in EarlyNodes THEN BuiltLocalFlags(n) ELSE lflags[n]]
    /\ pflags' = [n \in Nodes |-> IF n \in EarlyNodes THEN BuiltPersistentFlags(n) ELSE pflags[n]]
    /\ run' = [n \in Nodes |-> IF n = Oc THEN "runHelp"
                               ELSE IF n \in EarlyNodes THEN n ELSE run[n]]
    /\ hooks' = [hooks EXCEPT ![Oc] = TRUE]
    /\ \E v \in ValidateDefaults :
         flagState' = [f \in FlagIds |->
                        IF f \in DeclaredBy(EarlyNodes) THEN Declared(f, v) ELSE flagState[f]]
    /\ pc' = "normalize"
    /\ UNCHANGED <<goos, argv0, osArgs, visits, passes, search, target, lookPath,
                   handler, warnings, outcome, errout>>

\* The override without validateFlag.Value.Set("ignore").
IgnoreDefaultOnly(fs) == [fs EXCEPT !.def = "ignore", !.changed = FALSE]

\* validateFlag.DefValue = "ignore"; validateFlag.Value.Set("ignore");
\* validateFlag.Changed = false
IgnoreValidate(fs) == [def |-> "ignore", value |-> "ignore", changed |-> FALSE]

\* The loop of changeSharedFlagDefaults over the growing list cmds, from
\* index i: st holds the flags' state and the visit counts.
\* The body of the loop for one command: the upstream --validate flag, when
\* the command has it, is set to ignore.
ChangeDefaults(fs, validateFlag) ==
    IF validateFlag # None /\ UsageHasMarker(validateFlag)
    THEN [fs EXCEPT ![validateFlag] = IgnoreValidate(@)]
    ELSE fs

RECURSIVE ChangeWalk(_, _, _)
ChangeWalk(cmds, i, st) ==
    IF i > Len(cmds) THEN st
    ELSE ChangeWalk(cmds \o commands[cmds[i]], i + 1,
             [flags |-> ChangeDefaults(st.flags,
                                       Lookup(Flags(cmds[i]), <<"validate">>)),
              visits |-> [st.visits EXCEPT ![cmds[i]] = @ + 1]])

ChangeSharedFlagDefaults(rootCmd, fs, vis) ==
    ChangeWalk(<<rootCmd>>, 1, [flags |-> fs, visits |-> vis])

Walked(st) == flagState' = st.flags /\ visits' = st.visits

\* changeSharedFlagDefaults(cmds)
Normalize ==
    /\ pc = "normalize"
    /\ Walked(ChangeSharedFlagDefaults(cmd, flagState, visits))
    /\ passes' = Append(passes, "normalizer")
    /\ pc' = "addlate"
    /\ UNCHANGED <<goos, argv0, osArgs, treeVars, built, cmd, search, target,
                   lookPath, handler, warnings, outcome, errout>>

\* ActsAsRootCommand (help templates, not modelled), then
\* cmds.AddCommand of ex, plugin, version and options; NewOcCommand returns.
AddLate ==
    /\ pc = "addlate"
    /\ use' = [n \in Nodes |-> IF n \in LateNodes THEN BuiltUse(n) ELSE use[n]]
    /\ commands' = [commands EXCEPT ![Oc] = @ \o LateCommands]
    /\ parent' = [n \in Nodes |-> IF n \in LateNodes THEN Oc ELSE parent[n]]
    /\ lflags' = [n \in Nodes |-> IF n \in LateNodes THEN BuiltLocalFlags(n) ELSE lflags[n]]
    /\ pflags' = [n \in Nodes |-> IF n \in LateNodes THEN BuiltPersistentFlags(n) ELSE pflags[n]]
    /\ run' = [n \in Nodes |-> IF n \in LateNodes THEN n ELSE run[n]]
    /\ flagState' = [f \in FlagIds |->
                      IF f \in DeclaredBy(LateNodes) THEN Declared(f, "") ELSE flagState[f]]
    /\ pc' = "dispatch"
    /\ UNCHANGED <<goos, argv0, osArgs, hooks, visits, built, passes, cmd, search,
                   target, lookPath, handler, warnings, outcome, errout>>

\* ----------------------------------------------------- NewDefaultOcCommand

\* plugin.ValidPluginFilenamePrefixes
ValidPluginFilenamePrefixes == <<"oc", "kubectl">>

\* "first non-flag arguments": the first argument without a leading "-",
\* the empty string when there is none.
RECURSIVE CmdName(_)
CmdName(cmdPathPieces) ==
    IF cmdPathPieces = <<>> THEN <<>>
    ELSE IF ~IsFlagArg(Head(cmdPathPieces)) THEN Head(cmdPathPieces)
    ELSE CmdName(Tail(cmdPathPieces))

\* case "help", cobra.ShellCompRequestCmd, cobra.ShellCompNoDescRequestCmd
NoPluginSearch(cmdName) ==
    cmdName \in {Help, ShellCompRequestCmd, ShellCompNoDescRequestCmd}

\* The leading arguments up to the first flag, "-" turned into "_".
RECURSIVE RemainingArgs(_)
RemainingArgs(cmdArgs) ==
    IF cmdArgs = <<>> \/ IsFlagArg(Head(cmdArgs)) THEN <<>>
    ELSE <<Replace(Head(cmdArgs), Dash, Underscore)>> \o RemainingArgs(Tail(cmdArgs))

\* pluginHandler.Lookup(filename): the first valid prefix with which an
\* executable "<prefix>-<filename>" is on PATH, or None.
RECURSIVE LookupFrom(_, _, _)
LookupFrom(prefixes, filename, onPath) ==
    IF prefixes = <<>> THEN None
    ELSE IF <<Head(prefixes), Dash>> \o filename \in onPath
         THEN <<Head(prefixes), Dash>> \o filename
    ELSE LookupFrom(Tail(prefixes), filename, onPath)

\* "attempt to find binary, starting at longest possible name": the file
\* found and the number of arguments its name consumed.
RECURSIVE LongestPlugin(_, _)
LongestOr(remainingArgs, onPath, found) ==
    IF found # None THEN [file |-> found, n |-> Len(remainingArgs)]
    ELSE LongestPlugin(SubSeq(remainingArgs, 1, Len(remainingArgs) - 1), onPath)

LongestPlugin(remainingArgs, onPath) ==
    IF remainingArgs = <<>> THEN [file |-> None, n |-> 0]
    ELSE LongestOr(remainingArgs, onPath,
                   LookupFrom(ValidPluginFilenamePrefixes,
                              Join(remainingArgs, Dash), onPath))

\* kubecmd.HandlePluginCommand(pluginHandler, cmdArgs): an error when a flag
\* comes before the plugin name; nil when no executable is found; otherwise
\* the handler's Execute, which replaces the process, or fails (execOk).
HandleFound(cmdArgs, found, execOk) ==
    IF found.file = None THEN [kind |-> "nil"]
    ELSE IF execOk
         THEN [kind |-> "exec", file |-> found.file,
               args |-> SubSeq(cmdArgs, found.n + 1, Len(cmdArgs))]
    ELSE [kind |-> "error", msg |-> "exec failed"]

HandlePluginCommand(onPath, cmdArgs, execOk) ==
    IF RemainingArgs(cmdArgs) = <<>>
    THEN [kind |-> "error", msg |-> "flags cannot be placed before plugin name"]
    ELSE HandleFound(cmdArgs, LongestPlugin(RemainingArgs(cmdArgs), onPath), execOk)

\* Whether NewDefaultOcCommand looks for an external plugin: there are
\* arguments, cmd.Find fails on them, and the first non-flag argument is
\* neither help nor a completion request.
SearchesPlugin(c, args) ==
    /\ Len(args) > 0
    /\ Find(c, args).err
    /\ ~NoPluginSearch(CmdName(args))

\* What follows HandlePluginCommand: on an error the message goes to errout
\* and the process exits with 1; a plugin that was executed has replaced the
\* process; on nil NewDefaultOcCommand returns cmd.
Handled(r) ==
    /\ search' = [decided |-> TRUE, triggered |-> TRUE, result |-> r]
    /\ CASE r.kind = "error" ->
              /\ errout' = Append(errout, r.msg)
              /\ outcome' = [kind |-> "exit", code |-> 1]
              /\ pc' = "exited"
         [] r.kind = "exec" ->
              /\ outcome' = [kind |-> "exec", file |-> r.file, args |-> r.args]
              /\ pc' = "execed"
              /\ UNCHANGED errout
         [] r.kind = "nil" ->
              /\ pc' = "reroot"
              /\ UNCHANGED <<outcome, errout>>

\* NewDefaultOcCommand after NewOcCommand has returned cmd.
NewDefaultOcCommand ==
    /\ pc = "dispatch"
    /\ passes' = Append(passes, "dispatch")
    /\ IF ~SearchesPlugin(cmd, osArgs)
       THEN /\ search' = [decided |-> TRUE, triggered |-> FALSE, result |-> None]
            /\ pc' = "reroot"
            /\ UNCHANGED <<lookPath, outcome, errout>>
       ELSE \E onPath \in PathConfigs, execOk \in BOOLEAN :
              /\ lookPath' = onPath
              /\ Handled(HandlePluginCommand(onPath, osArgs, execOk))
    /\ UNCHANGED <<goos, argv0, osArgs, treeVars, flagState, visits, built, cmd,
                   target, handler, warnings>>

\* --------------------------------------------- CommandFor, the plugin branch

\* strings.Split(strings.TrimPrefix(basename, "kubectl-"), "-"), every "_" of
\* every piece replaced by "-".
Dashed(pieces) == [i \in 1..Len(pieces) |-> Replace(pieces[i], Underscore, Dash)]

PluginArgs(basename) == Dashed(Split(TrimPrefix(basename, PluginPrefix), Dash))

\* The copy without the flags of the target.
CopyRootFlagsOnly(root, targetCmd) == AddFlagSet({}, Flags(root))

\* "copy flags": newParent.Flags() after AddFlagSet(cmd.Flags()) and
\* AddFlagSet(targetCmd.Flags()).
CopyFlags(root, targetCmd) ==
    AddFlagSet(AddFlagSet({}, Flags(root)), Flags(targetCmd))

\* What the plugin branch resolves: the target command, or None when the
\* basename has no "kubectl-" prefix or cmd.Find fails.
Found(f) == IF f.cmd # None /\ ~f.err THEN f.cmd ELSE None

Resolve(root, basename) ==
    IF ~HasPrefix(basename, PluginPrefix) THEN None
    ELSE Found(Find(root, PluginArgs(basename)))

\* "treat oc as a kubectl plugin": on success a new root that copies Use
\* (Short, Long, Example), Run, the flags and the children of the target.
ReRoot(targetCmd) ==
    /\ target' = targetCmd
    /\ IF targetCmd = None
       THEN UNCHANGED <<treeVars, cmd>>
       ELSE /\ use' = [use EXCEPT ![NewParent] = use[targetCmd]]
            /\ run' = [run EXCEPT ![NewParent] = run[targetCmd]]
            /\ lflags' = [lflags EXCEPT ![NewParent] = CopyFlags(cmd, targetCmd)]
            /\ pflags' = [pflags EXCEPT ![NewParent] = AddFlagSet({}, pflags[targetCmd])]
            /\ commands' = [commands EXCEPT ![NewParent] = commands[targetCmd]]
            /\ parent' = [n \in Nodes |->
                           IF \E i \in 1..Len(commands[targetCmd]) :
                                 commands[targetCmd][i] = n
                           THEN NewParent ELSE parent[n]]
            /\ cmd' = NewParent
            /\ UNCHANGED hooks

TreatAsKubectlPlugin ==
    /\ pc = "reroot"
    /\ passes' = Append(passes, "rerooter")
    /\ ReRoot(Resolve(cmd, Basename))
    /\ pc' = "return"
    /\ UNCHANGED <<goos, argv0, osArgs, flagState, visits, built, search,
                   lookPath, handler, warnings, outcome, errout>>

\* The end of CommandFor: the default usage function when none is set (help
\* formatting, not modelled), and return cmd.
Return ==
    /\ pc = "return"
    /\ pc' = "returned"
    /\ UNCHANGED <<goos, argv0, osArgs, treeVars, flagState, visits, built, passes,
                   cmd, search, target, lookPath, handler, warnings, outcome, errout>>

\* --------------------------------------------------- executing the root

\* A nil error.
NoError == <<>>

\* The hook with one message for every count.
PostRunAlwaysPlural(warningsAsErrors, count) ==
    IF warningsAsErrors /\ count # 0
    THEN <<count, "warnings received">>
    ELSE NoError

\* The PersistentPostRunE of the root command: nil, or the error
\* fmt.Errorf("%d warning received", count) or "%d warnings received".
PersistentPostRunE(warningsAsErrors, count) ==
    IF warningsAsErrors
    THEN CASE count = 0 -> NoError
           [] count = 1 -> <<count, "warning received">>
           [] OTHER -> <<count, "warnings received">>
    ELSE NoError

\* The command whose persistent hooks run for c: c or its nearest parent
\* that sets them, or None.
RECURSIVE HookOwner(_)
HookOwner(c) ==
    IF c = None THEN None
    ELSE IF hooks[c] THEN c
    ELSE HookOwner(parent[c])

\* Command.ParseFlags(args) on command c: whether every flag is known and
\* has its value, and the flags that were set.
RECURSIVE ParseFlags(_, _)
WithFlag(f, p) == [p EXCEPT !.set = @ \cup {f}]

ParseFlag(c, f, rest) ==
    IF f = None THEN [ok |-> FALSE, set |-> {}]
    ELSE IF NoOptDefVal(f) THEN WithFlag(f, ParseFlags(c, rest))
    ELSE IF rest = <<>> THEN [ok |-> FALSE, set |-> {}]
    ELSE WithFlag(f, ParseFlags(c, Tail(rest)))

ParseFlags(c, args) ==
    IF args = <<>> \/ Head(args) = <<Dash, Dash>> THEN [ok |-> TRUE, set |-> {}]
    ELSE IF ~HasPrefix(Head(args), <<Dash, Dash>>) THEN ParseFlags(c, Tail(args))
    ELSE ParseFlag(c, Lookup(Flags(c), SubSeq(Head(args), 3, Len(Head(args)))),
                   Tail(args))

\* The commands cobra adds to a root itself when it executes: help (when the
\* root has subcommands) and the completion requests.
AddedByCobra(root, words) ==
    /\ words # <<>>
    /\ \/ words[1] = Help /\ HasSubCommands(root)
       \/ words[1] \in {ShellCompRequestCmd, ShellCompNoDescRequestCmd}

Parsed(f, p) ==
    IF ~p.ok THEN [kind |-> "flag error"]
    ELSE IF run[f.cmd] = None THEN [kind |-> "help"]
    ELSE [kind |-> "run", run |-> run[f.cmd],
          hookOwner |-> HookOwner(f.cmd), set |-> p.set]

Located(f) ==
    IF f.err THEN [kind |-> "unknown command"]
    ELSE Parsed(f, ParseFlags(f.cmd, f.args))

\* What Execute on the root does with the arguments: a command cobra adds
\* itself, an unknown command, a flag error, the help of a command that
\* cannot run, or the run of the command found, with the owner of the
\* persistent hooks that run around it.
Plan(root, args) ==
    IF AddedByCobra(root, StripFlags(args, root))
    THEN [kind |-> "builtin"]
    ELSE Located(Find(root, args))

\* FlagSet.Set through the command line: the value, and Changed = true.
SetFlag(fs) == [fs EXCEPT !.value = IF fs.def = "false" THEN "true" ELSE "given",
                          !.changed = TRUE]

WarningsAsErrors(fs) == fs["oc.warnings-as-errors"].value = "true"

\* main exits with 1 when Execute returns an error.
ExitCode(err) == IF err = NoError THEN 0 ELSE 1

\* The run of a command: the flags are set, the PersistentPreRunE of the hook
\* owner installs the warning handler, Run receives w warnings from the
\* server (counted by the handler once installed), and the
\* PersistentPostRunE of the hook owner decides the error.
Ran(plan, w, hooked, fs, count) ==
    /\ flagState' = fs
    /\ handler' = (handler \/ hooked)
    /\ warnings' = count
    /\ outcome' = [kind |-> "ran", run |-> plan.run, pre |-> hooked, post |-> hooked,
                   err |-> IF hooked
                           THEN PersistentPostRunE(WarningsAsErrors(fs), count)
                           ELSE NoError,
                   code |-> ExitCode(IF hooked
                                     THEN PersistentPostRunE(WarningsAsErrors(fs), count)
                                     ELSE NoError)]

Executed(plan) ==
    IF plan.kind # "run"
    THEN /\ outcome' = [kind |-> plan.kind,
                        code |-> IF plan.kind \in {"unknown command", "flag error"}
                                 THEN 1 ELSE 0]
         /\ UNCHANGED <<flagState, handler, warnings>>
    ELSE \E w \in 0..MaxWarnings :
           Ran(plan, w, plan.hookOwner # None,
               [f \in FlagIds |->
                 IF f \in plan.set THEN SetFlag(flagState[f]) ELSE flagState[f]],
               IF handler \/ plan.hookOwner # None THEN w ELSE 0)

\* cmd.Execute() on the root CommandFor returned, with os.Args[1:].
Execute ==
    /\ pc = "returned"
    /\ pc' = "finished"
    /\ Executed(Plan(cmd, osArgs))
    /\ UNCHANGED <<goos, argv0, osArgs, treeVars, visits, built, passes, cmd,
                   search, target, lookPath, errout>>

Next ==
    \/ NewSpecialCommand
    \/ BuildOc
    \/ Normalize
    \/ AddLate
    \/ NewDefaultOcCommand
    \/ TreatAsKubectlPlugin
    \/ Return
    \/ Execute

Spec == Init /\ [][Next]_vars

\* ------------------------------------------------------------- the claims

SpecialNames ==
    {<<"kubectl">>, <<"openshift", Dash, "deploy">>, <<"openshift", Dash, "recycle">>}

\* CommandFor has returned.
Returned == pc \in {"returned", "finished"}

\* The re-rooting branch has run.
AfterReroot == pc \in {"return", "returned", "finished"} /\ cmd \notin SpecialRoots

\* NewOcCommand has returned its tree.
TreeReturned ==
    /\ "NewDefaultOcCommand" \in built
    /\ pc \in {"dispatch", "reroot", "return", "returned", "exited", "execed", "finished"}

\* The names of the flags of a set.
Names(set) == {FlagName(f) : f \in set}

\* The nodes of the tree under a root, the root included.
RECURSIVE Under(_)
Under(c) ==
    {c} \cup UNION {Under(commands[c][i]) : i \in 1..Len(commands[c])}

(* C1: CommandFor returns, for each of the three special basenames, the tree
   of its own constructor, the three being distinct from each other and from
   the default tree; for any other basename it returns the default oc tree,
   unless the basename has the prefix "kubectl-" and the resolution found a
   target, and then it returns the new root. *)
C1_EntryResolver ==
    Returned =>
      /\ Basename = <<"kubectl">> =>
            cmd = KubectlRoot /\ built = {"NewDefaultKubectlCommand"}
      /\ Basename = <<"openshift", Dash, "deploy">> =>
            cmd = DeployRoot /\ built = {"NewCommandDeployer"}
      /\ Basename = <<"openshift", Dash, "recycle">> =>
            cmd = RecycleRoot /\ built = {"NewCommandRecycle"}
      /\ Cardinality({KubectlRoot, DeployRoot, RecycleRoot, Oc, NewParent}) = 5
      /\ Basename \notin SpecialNames =>
            /\ built = {"NewDefaultOcCommand"}
            /\ cmd \in {Oc, NewParent}
            /\ cmd = NewParent <=> (HasPrefix(Basename, PluginPrefix) /\ target # None)

\* A Windows invocation as KUBECTL.EXE has returned the kubectl tree.
C1_Witness ==
    /\ pc = "returned"
    /\ goos = "windows"
    /\ argv0 # Basename
    /\ cmd = KubectlRoot

\* The flags that apply to a built command: its own, and the persistent
\* flags of its parents.
RECURSIVE InheritedBy(_)
InheritedBy(n) ==
    IF BuiltParent(n) = None THEN {}
    ELSE BuiltPersistentFlags(BuiltParent(n)) \cup InheritedBy(BuiltParent(n))

AppliesTo(n) == BuiltLocalFlags(n) \cup BuiltPersistentFlags(n) \cup InheritedBy(n)

(* C3: after a successful re-rooting the names of the new root's flags are
   exactly the names of the flags of the default root and of the target's
   local and inherited flags, and every flag of the new root is a flag of the
   default root or a local or inherited flag of the target: no flag of a
   sibling or of another command that is no ancestor of the target. *)
C3_FlagUnion ==
    (AfterReroot /\ target # None) =>
      /\ Names(lflags[NewParent]) = Names(AppliesTo(Oc)) \cup Names(AppliesTo(target))
      /\ lflags[NewParent] \subseteq AppliesTo(Oc) \cup AppliesTo(target)

\* Re-rooted at create rolebinding, which has local flags, inherits one from
\* create, and has a sibling with a flag of its own.
C3_Witness ==
    /\ pc = "returned"
    /\ target = "rolebinding"
    /\ cmd = NewParent
    /\ <<"save", Dash, "config">> \in Names(lflags[NewParent])

(* C6: when the root's post-run hook runs with warnings-as-errors enabled, 0
   warnings end without error and exit code 0, 1 warning ends with "1 warning
   received" and exit code 1, n >= 2 warnings end with "n warnings received"
   and exit code 1; with the flag disabled the hook returns no error. *)
C6_WarningsAsErrors ==
    (pc = "finished" /\ outcome.kind = "ran" /\ outcome.post) =>
      IF WarningsAsErrors(flagState)
      THEN /\ warnings = 0 => outcome.err = NoError /\ outcome.code = 0
           /\ warnings = 1 => outcome.err = <<1, "warning received">> /\ outcome.code = 1
           /\ warnings >= 2 =>
                outcome.err = <<warnings, "warnings received">> /\ outcome.code = 1
      ELSE outcome.err = NoError /\ outcome.code = 0

\* A run under --warnings-as-errors that received exactly one warning.
C6_Witness ==
    /\ pc = "finished"
    /\ outcome.kind = "ran"
    /\ outcome.post
    /\ WarningsAsErrors(flagState)
    /\ warnings = 1
    /\ outcome.code = 1

\* A command's own flag named "validate" that carries the marker.
OwnValidate(n) ==
    {f \in lflags[n] \cup pflags[n] : FlagName(f) = <<"validate">> /\ UsageHasMarker(f)}

IsIgnored(f) ==
    flagState[f] = [def |-> "ignore", value |-> "ignore", changed |-> FALSE]

(* C7, as stated: once NewOcCommand has returned, every node of the tree it
   returns has been visited exactly once by the normaliser, every such node's
   own marked validate flag has default and value "ignore" and changed false,
   and running the pass again changes no flag. *)
C7_AsStated ==
    TreeReturned =>
      /\ \A n \in Under(Oc) :
            visits[n] = 1 /\ \A f \in OwnValidate(n) : IsIgnored(f)
      /\ ChangeSharedFlagDefaults(Oc, flagState, visits).flags = flagState

(* C7, amended: once NewOcCommand has returned, every node that was in the
   tree when the normaliser ran (the root, the grouped commands and their
   descendants) has been visited exactly once and the four commands added
   afterwards not at all; every visited node's own marked validate flag has
   default and value "ignore" and changed false; running the pass again
   changes no flag. *)
C7_Normalizer ==
    TreeReturned =>
      /\ \A n \in Under(Oc) : visits[n] = IF n \in LateNodes THEN 0 ELSE 1
      /\ \A n \in Under(Oc) \ LateNodes : \A f \in OwnValidate(n) : IsIgnored(f)
      /\ ChangeSharedFlagDefaults(Oc, flagState, visits).flags = flagState

\* The tree is returned with the upstream default "strict" overridden on
\* create and on create rolebinding, and with the late commands in it.
C7_Witness ==
    /\ pc = "dispatch"
    /\ flagState["new-app.validate"].def = "strict"
    /\ IsIgnored("create.validate")
    /\ IsIgnored("rolebinding.validate")
    /\ "version" \in Under(Oc)

\* Whether an outcome of Execute is what a plan announces.
SameExecution(o, plan) ==
    IF plan.kind = "run"
    THEN /\ o.kind = "ran"
         /\ o.run = plan.run
         /\ o.pre = (plan.hookOwner # None)
         /\ o.post = (plan.hookOwner # None)
    ELSE o.kind = plan.kind

(* C2: when the basename is "kubectl-" followed by a path of subcommands
   that exists in the default tree, executing the root CommandFor returns
   with no arguments does what executing the default tree with the path as
   arguments does: the same run behaviour, and the same pre-run and post-run
   hooks of the root take effect. *)
C2_PluginEquivalence ==
    ( /\ pc = "finished"
      /\ cmd = NewParent
      /\ target # Oc
      /\ osArgs = <<>>
      /\ Find(Oc, PluginArgs(Basename)).args = <<>> )
    => SameExecution(outcome, Plan(Oc, PluginArgs(Basename)))

(* C4: the search for an external plugin is made only when there is a
   non-flag argument, the tree CommandFor finally returns fails to find a
   command for the arguments, and the first non-flag argument is neither
   help nor a completion request; otherwise the process does not end inside
   the resolver. *)
C4_SearchOnlyOnMiss ==
    /\ (Returned /\ search.triggered) =>
          /\ CmdName(osArgs) # <<>>
          /\ Find(cmd, osArgs).err
          /\ ~NoPluginSearch(CmdName(osArgs))
    /\ pc \in {"exited", "execed"} =>
          /\ search.triggered
          /\ CmdName(osArgs) # <<>>
          /\ ~NoPluginSearch(CmdName(osArgs))

(* C5: when the search is made and no executable matches at any length of
   the arguments with any prefix, the process writes an error and exits with
   status 1; it does not go on to return a tree that is then executed. *)
C5_NoPluginExits ==
    ( /\ search.triggered
      /\ RemainingArgs(osArgs) # <<>>
      /\ LongestPlugin(RemainingArgs(osArgs), lookPath).file = None )
    => /\ pc = "exited"
       /\ outcome = [kind |-> "exit", code |-> 1]
       /\ errout # <<>>

\* Whether a pass is among the first n entries of the passes run so far.
RanBefore(pass, n) == \E j \in 1..(n - 1) : passes[j] = pass

(* C8: the normaliser runs before the first dispatch decision (taken when
   there are arguments to dispatch on), and when the basename has the prefix
   "kubectl-", the re-rooter does too: the search for an external plugin is
   never decided before the re-rooting has been attempted. *)
C8_PassesBeforeDispatch ==
    \A i \in 1..Len(passes) :
        (passes[i] = "dispatch" /\ osArgs # <<>>) =>
          /\ RanBefore("normalizer", i)
          /\ HasPrefix(Basename, PluginPrefix) => RanBefore("rerooter", i)

\* The child of a command with exactly this name, or None.
RECURSIVE NamedChild(_, _, _)
NamedChild(c, i, name) ==
    IF i > Len(commands[c]) THEN None
    ELSE IF Name(commands[c][i]) = name THEN commands[c][i]
    ELSE NamedChild(c, i + 1, name)

\* The walk that consumes segments while a child has exactly that name.
RECURSIVE ExactWalk(_, _)
ExactStep(c, child, segs) ==
    IF child = None THEN c ELSE ExactWalk(child, Tail(segs))

ExactWalk(c, segs) ==
    IF segs = <<>> THEN c
    ELSE ExactStep(c, NamedChild(c, 1, Head(segs)), segs)

ExactTarget(segs) ==
    IF ExactWalk(Oc, segs) = Oc THEN None ELSE ExactWalk(Oc, segs)

(* C9: for a basename "kubectl-s1-...-sn" the target of the re-rooting is
   the deepest node reached by matching the segments against child names by
   exact equality from the default root, stopping at the first segment
   without a match; when the first segment matches no child of the root
   (also when nothing follows the prefix) there is no re-rooting and
   CommandFor returns the default tree. *)
C9_Resolution ==
    (Returned /\ HasPrefix(Basename, PluginPrefix)) =>
      /\ target = ExactTarget(PluginArgs(Basename))
      /\ cmd = IF ExactTarget(PluginArgs(Basename)) = None THEN Oc ELSE NewParent

(* C10: when a flag of the default root and a local or inherited flag of the
   target have the same name, the new root's local flag set holds the
   target's, declared later, and not the root's; and every name of the
   united flags is in the new root's local flag set. *)
C10_LaterWins ==
    (AfterReroot /\ target \notin {None, Oc}) =>
      /\ \A f \in AppliesTo(target) : \A g \in AppliesTo(Oc) :
            (FlagName(f) = FlagName(g) /\ f # g) =>
                f \in lflags[NewParent] /\ g \notin lflags[NewParent]
      /\ Names(AppliesTo(Oc)) \cup Names(AppliesTo(target))
            \subseteq Names(lflags[NewParent])

====
